---- MODULE Spec2Model ----
(***************************************************************************)
(* Model of two adapters of the gabarit templates:                         *)
(*   - LimeExplainer       (template_nlp, monitoring/model_explainer.py)   *)
(*   - ModelDenseRegressor (template_num, regressors/                      *)
(*                          model_dense_regressor.py)                      *)
(* Python objects are functions from attribute names to values, a missing  *)
(* attribute is a name outside the DOMAIN.  Python values are tagged       *)
(* records so that None, numbers, strings, lists and callables can be      *)
(* compared with one another.                                              *)
(***************************************************************************)
EXTENDS Integers, Sequences, FiniteSets, TLC

VARIABLES
    explainer,  \* the LimeExplainer object (its attributes)
    last,       \* the last operation on the explainer: arguments, calls made, outcome
    regressor,  \* the ModelDenseRegressor that reload_from_standalone acts on
    files,      \* the file system: existing paths and their contents
    reload,     \* the last reload_from_standalone call: arguments, events, outcome
    builders,   \* two ModelDenseRegressor instances whose _get_model is called
    emitted     \* what _get_model returned and did for each of the two

explainerVars == <<explainer, last>>
reloadVars == <<regressor, files, reload>>
buildVars == <<builders, emitted>>
vars == <<explainer, last, regressor, files, reload, builders, emitted>>

----------------------------------------------------------------------------
(* Python values                                                           *)

None == [t |-> "None"]
IntV(n) == [t |-> "int", v |-> n]
StrV(s) == [t |-> "str", v |-> s]
ListV(s) == [t |-> "list", v |-> s]
FuncV(id) == [t |-> "function", id |-> id]
BoolV(b) == [t |-> "bool", v |-> b]
FloatV(s) == [t |-> "float", v |-> s]

(* callable(v) *)
Callable(v) == v.t = "function"

(* getattr(obj, name, default) *)
GetAttr(obj, name, default) == IF name \in DOMAIN obj THEN obj[name] ELSE default

(* dict.get(key, default) *)
DictGet(d, key, default) == IF key \in DOMAIN d THEN d[key] ELSE default

(* an object or dict built from a set of keys *)
Restrict(f, K) == [k \in K \cap DOMAIN f |-> f[k]]

----------------------------------------------------------------------------
(* Bounds of the explainer model                                           *)

MaxIndex == 2
MaxContentLen == 2

(* Inputs of the explainer model *)
Contents == {"text a", "text b"}
ContentLists == UNION {[1..n -> Contents] : n \in 0..MaxContentLen}
IndexArgs == {None} \cup {IntV(n) : n \in 0..MaxIndex}
ClassLists == {ListV(<<>>), ListV(<<"neg", "pos">>)}
PredictProbaValues == {None, StrV("not a function"), FuncV("m1"), FuncV("m2")}
ListClassesValues == {None} \cup ClassLists
PreprocessNames == {"no_preprocess", "preprocess_P1"}

FullModels == [predict_proba : PredictProbaValues, list_classes : ListClassesValues]
ModelObjects == {Restrict(m, K) : m \in FullModels, K \in SUBSET {"predict_proba", "list_classes"}}

FullConfs == [preprocess_str : PreprocessNames, multi_label : {FALSE}]
ModelConfs == {Restrict(c, K) : c \in FullConfs, K \in SUBSET {"preprocess_str", "multi_label"}}

DefaultMaxFeatures == 15
MaxFeaturesArgs == {DefaultMaxFeatures, 5}

----------------------------------------------------------------------------
(* LimeExplainer                                                           *)

NotConstructed == [a \in {} |-> None]
NoCall == [op |-> "none"]

(* Mutant: the check of line 87 without its callable() test.               *)
PredictProbaInvalidNoneOnly(model) == GetAttr(model, "predict_proba", None) = None

(* The check of line 87: predict_proba is missing, None or not callable.   *)
PredictProbaInvalid(model) ==
    LET pred_proba_op == GetAttr(model, "predict_proba", None)
    IN pred_proba_op = None \/ ~Callable(pred_proba_op)

(* The check of line 89: list_classes is missing or None.                  *)
ListClassesInvalid(model) == GetAttr(model, "list_classes", None) = None

(* The message of the TypeError __init__ raises, "" when it raises none.   *)
InitTypeError(model) ==
    IF PredictProbaInvalid(model)
    THEN "The supplied model must implement a predict_proba() function"
    ELSE IF ListClassesInvalid(model)
    THEN "The supplied model must have a list_classes attribute"
    ELSE ""

(* The attributes __init__ sets, lines 92-99.                              *)
InitAttributes(model, model_conf) ==
    [model |-> model,
     model_conf |-> model_conf,
     class_names |-> model["list_classes"],
     current_class_or_label_index |-> IntV(0),
     explainer |-> [t |-> "LimeTextExplainer", class_names |-> model["list_classes"]]]

(* LimeExplainer(model, model_conf): a failed construction yields no       *)
(* object, the variable keeps the explainer built before, if any.          *)
LimeExplainerInit(model, model_conf) ==
    LET msg == InitTypeError(model)
    IN IF msg # ""
       THEN /\ last' = [op |-> "__init__", model |-> model, model_conf |-> model_conf,
                        raised |-> "TypeError", message |-> msg]
            /\ UNCHANGED <<explainer, reloadVars, buildVars>>
       ELSE /\ explainer' = InitAttributes(model, model_conf)
            /\ last' = [op |-> "__init__", model |-> model, model_conf |-> model_conf,
                        raised |-> "", message |-> ""]
            /\ UNCHANGED <<reloadVars, buildVars>>

Constructed == explainer # NotConstructed

(* preprocess.get_preprocessor(preprocess_str) applied to a list of texts: *)
(* the preprocessor found under that name, applied to each text.           *)
GetPreprocessor(preprocess_str, content_list) ==
    [i \in DOMAIN content_list |-> <<preprocess_str, content_list[i]>>]

(* model.predict_proba(content_prep) of the duck-typed model.              *)
PredictProba(model, content_prep) ==
    [t |-> "probabilities", by |-> model["predict_proba"].id, of |-> content_prep]

(* Mutant: the configured name is never looked up.                         *)
PreprocessStrAlwaysDefault(model_conf) == "no_preprocess"

(* The preprocessor name classifier_fn uses, lines 110-113.                *)
PreprocessStr(model_conf) ==
    IF "preprocess_str" \in DOMAIN model_conf
    THEN model_conf["preprocess_str"]
    ELSE "no_preprocess"

(* classifier_fn(content_list), lines 109-118: its return value.           *)
ClassifierFnResult(self, content_list) ==
    LET preprocess_str == PreprocessStr(self["model_conf"])
        content_prep == GetPreprocessor(preprocess_str, content_list)
    IN PredictProba(self["model"], content_prep)

(* classifier_fn assigns no attribute.                                     *)
ClassifierFn(content_list) ==
    /\ Constructed
    /\ last' = [op |-> "classifier_fn", content_list |-> content_list,
                returned |-> ClassifierFnResult(explainer, content_list)]
    /\ UNCHANGED <<explainer, reloadVars, buildVars>>

(* Mutant: without the else branch of line 139 the index of the call       *)
(* before is kept when no index is given.                                  *)
SetIndexKeepsStale(self, class_or_label_index) ==
    IF class_or_label_index # None
    THEN [self EXCEPT !["current_class_or_label_index"] = class_or_label_index]
    ELSE self

(* "Set index", lines 136-139.                                             *)
SetIndex(self, class_or_label_index) ==
    IF class_or_label_index # None
    THEN [self EXCEPT !["current_class_or_label_index"] = class_or_label_index]
    ELSE [self EXCEPT !["current_class_or_label_index"] = IntV(1)]

(* The labels tuple handed to LimeTextExplainer.explain_instance, line 141 *)
LimeLabels(self) == <<self["current_class_or_label_index"]>>

(* The call of line 141 into LIME; LIME calls classifier_fn back on texts  *)
(* derived from content.                                                   *)
LimeCall(self, content, max_features) ==
    [content |-> content,
     labels |-> LimeLabels(self),
     num_features |-> max_features,
     classifier_fn |-> ClassifierFnResult(self, <<content>>)]

(* The Explanation object LIME returns for a call.                         *)
Explanation(call) == [t |-> "Explanation", of |-> call]

(* Mutant: line 171 passing its own argument instead of the shared index.  *)
AsListLabelFromArgument(self, class_or_label_index) == class_or_label_index

(* The label explain_instance_as_list asks the explanation for, line 171.  *)
AsListLabel(self, class_or_label_index) == self["current_class_or_label_index"]

(* One of the three explain operations: explain_instance (lines 135-141),  *)
(* then the conversion of its result (lines 155, 169-171).  lime_ok is     *)
(* whether the LIME library returns an explanation or raises.              *)
Explain(op, content, class_or_label_index, max_features, lime_ok) ==
    LET self1 == SetIndex(explainer, class_or_label_index)
        call == LimeCall(self1, content, max_features)
        explanation == Explanation(call)
        as_list_label == IF op = "explain_instance_as_list" /\ lime_ok
                         THEN AsListLabel(self1, class_or_label_index)
                         ELSE None
        returned == IF ~lime_ok THEN None
                    ELSE IF op = "explain_instance" THEN explanation
                    ELSE IF op = "explain_instance_as_html"
                    THEN [t |-> "html", of |-> explanation]
                    ELSE [t |-> "list", label |-> as_list_label, of |-> explanation]
    IN /\ Constructed
       /\ explainer' = self1
       /\ last' = [op |-> op, content |-> content,
                   class_or_label_index |-> class_or_label_index,
                   indexBefore |-> explainer["current_class_or_label_index"],
                   lime |-> call,
                   raised |-> IF lime_ok THEN "" ELSE "LimeError",
                   as_list_label |-> as_list_label,
                   returned |-> returned]
       /\ UNCHANGED <<reloadVars, buildVars>>

ExplainInstance(content, class_or_label_index, max_features, lime_ok) ==
    Explain("explain_instance", content, class_or_label_index, max_features, lime_ok)

ExplainInstanceAsHtml(content, class_or_label_index, max_features, lime_ok) ==
    Explain("explain_instance_as_html", content, class_or_label_index, max_features, lime_ok)

ExplainInstanceAsList(content, class_or_label_index, max_features, lime_ok) ==
    Explain("explain_instance_as_list", content, class_or_label_index, max_features, lime_ok)

ExplainOps == {"explain_instance", "explain_instance_as_html", "explain_instance_as_list"}

----------------------------------------------------------------------------
(* Properties of LimeExplainer, checked under SpecExplainer                *)

LacksPredictProba(model) ==
    \/ "predict_proba" \notin DOMAIN model
    \/ model["predict_proba"] = None
    \/ model["predict_proba"].t # "function"

LacksListClasses(model) ==
    \/ "list_classes" \notin DOMAIN model
    \/ model["list_classes"] = None

(* C1: LimeExplainer(model, model_conf) raises TypeError exactly when the  *)
(* model has no callable predict_proba or no non-None list_classes, the    *)
(* predict_proba check deciding the message when both fail; otherwise the  *)
(* object holds model, model_conf, class_names = model.list_classes and    *)
(* current_class_or_label_index = 0.                                       *)
C1_InitValidatesModel ==
    last.op = "__init__" =>
        /\ LacksPredictProba(last.model) =>
              /\ last.raised = "TypeError"
              /\ last.message = "The supplied model must implement a predict_proba() function"
        /\ (~LacksPredictProba(last.model) /\ LacksListClasses(last.model)) =>
              /\ last.raised = "TypeError"
              /\ last.message = "The supplied model must have a list_classes attribute"
        /\ (~LacksPredictProba(last.model) /\ ~LacksListClasses(last.model)) =>
              /\ last.raised = ""
              /\ explainer["model"] = last.model
              /\ explainer["model_conf"] = last.model_conf
              /\ explainer["class_names"] = last.model["list_classes"]
              /\ explainer["current_class_or_label_index"] = IntV(0)

(* A construction refused for a predict_proba that is there but is not     *)
(* callable, on a model that has its list_classes.                         *)
C1_Witness ==
    /\ last.op = "__init__"
    /\ last.raised = "TypeError"
    /\ "predict_proba" \in DOMAIN last.model
    /\ last.model["predict_proba"] = StrV("not a function")
    /\ ~LacksListClasses(last.model)

(* C6: classifier_fn returns model.predict_proba of the whole list put     *)
(* through the preprocessor named model_conf['preprocess_str'], or through *)
(* 'no_preprocess' when the key is absent, and changes no attribute.       *)
C6_ClassifierFnLooksUpPreprocessor ==
    [][last'.op = "classifier_fn" =>
         LET conf == explainer["model_conf"]
             name == IF "preprocess_str" \in DOMAIN conf
                     THEN conf["preprocess_str"] ELSE "no_preprocess"
         IN /\ last'.returned =
                  PredictProba(explainer["model"],
                               GetPreprocessor(name, last'.content_list))
            /\ explainer' = explainer]_vars

C6_Witness ==
    /\ last.op = "classifier_fn"
    /\ Len(last.content_list) >= 2
    /\ "preprocess_str" \in DOMAIN explainer["model_conf"]
    /\ explainer["model_conf"]["preprocess_str"] = "preprocess_P1"
    /\ explainer["current_class_or_label_index"] # IntV(0)

ExpectedIndex(class_or_label_index) ==
    IF class_or_label_index = None THEN IntV(1) ELSE class_or_label_index

(* C7: an explain call leaves current_class_or_label_index at its index    *)
(* argument, or at 1 when that is None, and asks LIME for that label       *)
(* whatever the index was before; the index is 0 only after construction   *)
(* or after a call given 0; no other operation changes it.                 *)
C7_IndexFollowsLastCall ==
    [][IF last'.op \in ExplainOps
       THEN /\ explainer'["current_class_or_label_index"] =
                  ExpectedIndex(last'.class_or_label_index)
            /\ last'.lime.labels = <<ExpectedIndex(last'.class_or_label_index)>>
            /\ explainer'["current_class_or_label_index"] = IntV(0)
                  => last'.class_or_label_index = IntV(0)
       ELSE IF last'.op = "__init__" /\ last'.raised = ""
       THEN explainer'["current_class_or_label_index"] = IntV(0)
       ELSE explainer' = explainer]_vars

(* A call without index after a call that left another index.              *)
C7_Witness ==
    /\ last.op \in ExplainOps
    /\ last.class_or_label_index = None
    /\ last.indexBefore = IntV(2)
    /\ explainer["current_class_or_label_index"] = IntV(1)

(* C8: in explain_instance_as_list the label given to as_list is the label *)
(* of the labels tuple given to LIME in the same call.                     *)
C8_AsListLabelIsExplainedLabel ==
    (last.op = "explain_instance_as_list" /\ last.raised = "") =>
        /\ last.lime.labels = <<last.as_list_label>>
        /\ last.returned.label = last.lime.labels[1]
        /\ last.returned.of.of.labels = <<last.returned.label>>

C8_Witness ==
    /\ last.op = "explain_instance_as_list"
    /\ last.raised = ""
    /\ last.class_or_label_index = None
    /\ last.indexBefore = IntV(0)
    /\ last.as_list_label = IntV(1)

----------------------------------------------------------------------------
(* ModelDenseRegressor._get_model                                          *)

MaxColumns == 2

LevelSaves == {"LOW", "MEDIUM", "HIGH"}
ColumnNames == {"age", "size"}
XCols == {[i \in 1..n |-> c] : n \in 0..MaxColumns, c \in ColumnNames}
LearningRates == {FloatV("0.001"), FloatV("0.01")}
Decays == {FloatV("0.0001")}
FullKerasParams == [learning_rate : LearningRates, decay : Decays]
KerasParams == {Restrict(k, K) : k \in FullKerasParams, K \in SUBSET {"learning_rate", "decay"}}

(* The instances _get_model is called on: the attributes it can read.      *)
BuilderInstances ==
    [x_col : XCols, keras_params : KerasParams, level_save : LevelSaves,
     batch_size : {IntV(32), IntV(64)}]

Dense(units, activation, kernel_initializer) ==
    [layer |-> "Dense", units |-> units, activation |-> activation,
     kernel_initializer |-> kernel_initializer]
BatchNormalization(momentum) == [layer |-> "BatchNormalization", momentum |-> momentum]
ELU(alpha) == [layer |-> "ELU", alpha |-> alpha]
Dropout(rate) == [layer |-> "Dropout", rate |-> rate]
Input(shape) == [layer |-> "Input", shape |-> shape]

(* Lines 60-77: the layers, each applied to the one before.                *)
Layers(self) ==
    LET input_dim == Len(self.x_col)
    IN << Input(<<input_dim>>),
          Dense(64, None, "he_uniform"), BatchNormalization("0.9"), ELU("1.0"), Dropout("0.2"),
          Dense(64, None, "he_uniform"), BatchNormalization("0.9"), ELU("1.0"), Dropout("0.2"),
          Dense(1, None, "glorot_uniform") >>

(* Mutant: the batch size scales the learning rate that was not given.     *)
OptimizerReadsBatchSize(self) ==
    LET lr == IF "learning_rate" \in DOMAIN self.keras_params
              THEN self.keras_params["learning_rate"] ELSE self.batch_size
        decay == IF "decay" \in DOMAIN self.keras_params
                 THEN self.keras_params["decay"] ELSE FloatV("0.0")
    IN [class |-> "Adam", lr |-> lr, decay |-> decay]

(* Lines 83-87: the optimizer.                                             *)
Optimizer(self) ==
    LET lr == IF "learning_rate" \in DOMAIN self.keras_params
              THEN self.keras_params["learning_rate"] ELSE FloatV("0.001")
        decay == IF "decay" \in DOMAIN self.keras_params
                 THEN self.keras_params["decay"] ELSE FloatV("0.0")
    IN [class |-> "Adam", lr |-> lr, decay |-> decay]

(* Lines 80-94: the compiled model.                                        *)
CompiledModel(self) ==
    [layers |-> Layers(self),
     optimizer |-> Optimizer(self),
     loss |-> "mean_squared_error",
     metrics |-> <<"mean_squared_error", "mean_absolute_error", "root_mean_squared_error">>]

(* Lines 99-100: whether _save_model_png is called.                        *)
SavesPng(self) == self.level_save \in {"MEDIUM", "HIGH"}

NotEmitted == [called |-> FALSE]

(* _get_model() on instance i: the model returned, the PNG side effect.    *)
GetModel(i) ==
    /\ emitted' = [emitted EXCEPT ![i] = [called |-> TRUE,
                                          model |-> CompiledModel(builders[i]),
                                          png |-> SavesPng(builders[i])]]
    /\ UNCHANGED <<builders, explainerVars, reloadVars>>

----------------------------------------------------------------------------
(* Properties of _get_model, checked under SpecBuild                       *)

ExpectedBlock ==
    << [layer |-> "Dense", units |-> 64, activation |-> None,
        kernel_initializer |-> "he_uniform"],
       [layer |-> "BatchNormalization", momentum |-> "0.9"],
       [layer |-> "ELU", alpha |-> "1.0"],
       [layer |-> "Dropout", rate |-> "0.2"] >>

ExpectedModel(input_dim, keras_params) ==
    [layers |-> << [layer |-> "Input", shape |-> <<input_dim>>] >>
                \o ExpectedBlock \o ExpectedBlock
                \o << [layer |-> "Dense", units |-> 1, activation |-> None,
                       kernel_initializer |-> "glorot_uniform"] >>,
     optimizer |-> [class |-> "Adam",
                    lr |-> IF "learning_rate" \in DOMAIN keras_params
                           THEN keras_params["learning_rate"] ELSE FloatV("0.001"),
                    decay |-> IF "decay" \in DOMAIN keras_params
                              THEN keras_params["decay"] ELSE FloatV("0.0")],
     loss |-> "mean_squared_error",
     metrics |-> <<"mean_squared_error", "mean_absolute_error", "root_mean_squared_error">>]

(* C5: the model _get_model emits is the fixed topology on len(x_col)      *)
(* inputs with Adam(learning_rate or 0.001, decay or 0.0); two instances   *)
(* with the same len(x_col) and keras_params get the same model whatever   *)
(* their other attributes; level_save decides only the PNG.                *)
C5_TopologyDeterministic ==
    /\ \A i \in 1..2 : emitted[i].called =>
          /\ emitted[i].model =
                ExpectedModel(Len(builders[i].x_col), builders[i].keras_params)
          /\ emitted[i].png = (builders[i].level_save # "LOW")
    /\ (/\ emitted[1].called /\ emitted[2].called
        /\ Len(builders[1].x_col) = Len(builders[2].x_col)
        /\ builders[1].keras_params = builders[2].keras_params)
       => emitted[1].model = emitted[2].model

(* Two instances that differ in column names, level_save and batch size,   *)
(* neither giving a learning rate.                                         *)
C5_Witness ==
    /\ emitted[1].called /\ emitted[2].called
    /\ Len(builders[1].x_col) = 2
    /\ Len(builders[2].x_col) = 2
    /\ builders[1].x_col # builders[2].x_col
    /\ builders[1].keras_params = builders[2].keras_params
    /\ DOMAIN builders[1].keras_params = {"decay"}
    /\ builders[1].level_save = "LOW"
    /\ builders[2].level_save = "HIGH"
    /\ builders[1].batch_size # builders[2].batch_size

----------------------------------------------------------------------------
(* ModelDenseRegressor.reload_from_standalone                              *)

NumProfiles == 2
MaxDrop == 1

(* The keys a configuration file can hold, and the attributes the loop of  *)
(* lines 150-153 reads from it.                                            *)
ConfigKeys ==
    << "model_name", "model_dir", "nb_fit", "trained",
       "model_type", "x_col", "y_col", "columns_in", "mandatory_columns",
       "level_save", "batch_size", "epochs", "validation_split", "patience",
       "keras_params" >>
ReloadedAttributes ==
    { "model_type", "x_col", "y_col", "columns_in", "mandatory_columns",
      "level_save", "batch_size", "epochs", "validation_split", "patience",
      "keras_params" }
ConfigKeySet == {ConfigKeys[i] : i \in DOMAIN ConfigKeys}

(* The value attribute a has in the instance of profile p; profile 0 is a  *)
(* freshly constructed, never fitted instance.                             *)
ProfileValue(a, p) ==
    IF a = "nb_fit" THEN IntV(p)
    ELSE IF a = "trained" THEN BoolV(p % 2 = 1)
    ELSE [t |-> "value", of |-> a, v |-> p]

ModelV(p) == [t |-> "keras model", v |-> p]
PipelineV(p) == [t |-> "pipeline", v |-> p]

Instance(p) ==
    [a \in ConfigKeySet \cup {"model", "preprocess_pipeline"} |->
        IF a = "model" THEN (IF p = 0 THEN None ELSE ModelV(p))
        ELSE IF a = "preprocess_pipeline" THEN (IF p = 0 THEN None ELSE PipelineV(p))
        ELSE ProfileValue(a, p)]

(* Files and paths *)
Path(dir, name) == [dir |-> dir, name |-> name]
JsonFile(data) == [kind |-> "json", data |-> data]
Hdf5File(model) == [kind |-> "hdf5", model |-> model]
PickleFile(object) == [kind |-> "pickle", object |-> object]

(* os.path.exists(path) *)
Exists(fs, path) == path \in DOMAIN fs

(* What an instance writes when it is saved: its configuration as JSON,    *)
(* its weights and its preprocessing pipeline.                             *)
SavedConfiguration(inst) == [k \in ConfigKeySet |-> inst[k]]
SavedFiles(inst) ==
    [configuration |-> JsonFile(SavedConfiguration(inst)),
     hdf5 |-> Hdf5File(inst["model"]),
     preprocess_pipeline |-> PickleFile(inst["preprocess_pipeline"])]

(* Where the standalone files of the original instance are.                *)
StandaloneDir == [t |-> "value", of |-> "standalone_dir", v |-> 0]
ConfPath == Path(StandaloneDir, "configurations.json")
Hdf5Path == Path(StandaloneDir, "best.hdf5")
PipelinePath == Path(StandaloneDir, "preprocess_pipeline.pkl")

(* Line 159: os.path.join(self.model_dir, 'best.hdf5') *)
NewHdf5Path(self) == Path(self["model_dir"], "best.hdf5")

(* The sets of keys left in a configuration file: all of them, or all but  *)
(* a run of at most MaxDrop consecutive ones, or none.                     *)
KeySets ==
    {ConfigKeySet, {}} \cup
    { ConfigKeySet \ {ConfigKeys[j] : j \in (i..(i + w - 1)) \cap DOMAIN ConfigKeys} :
        i \in DOMAIN ConfigKeys, w \in 1..MaxDrop }

(* The arguments of a call. *)
KwargNames == {"configuration_path", "hdf5_path", "preprocess_pipeline_path"}
FullKwargs ==
    [configuration_path : {None, ConfPath, Hdf5Path},
     hdf5_path : {None, Hdf5Path, PipelinePath, NewHdf5Path(Instance(0))},
     preprocess_pipeline_path : {None, PipelinePath, ConfPath}]
StandaloneKwargs ==
    [configuration_path |-> ConfPath, hdf5_path |-> Hdf5Path,
     preprocess_pipeline_path |-> PipelinePath]
Kwargs == FullKwargs \cup {Restrict(StandaloneKwargs, K) : K \in SUBSET KwargNames}

NoError == [raised |-> "", at |-> ""]
Error(exc, at) == [raised |-> exc, at |-> at]

(* Mutant: each path is checked for existence right after its None check.  *)
ValidateInterleaved(kwargs, fs) ==
    LET configuration_path == DictGet(kwargs, "configuration_path", None)
        hdf5_path == DictGet(kwargs, "hdf5_path", None)
        preprocess_pipeline_path == DictGet(kwargs, "preprocess_pipeline_path", None)
    IN IF configuration_path = None THEN Error("ValueError", "configuration_path")
       ELSE IF ~Exists(fs, configuration_path)
       THEN Error("FileNotFoundError", "configuration_path")
       ELSE IF hdf5_path = None THEN Error("ValueError", "hdf5_path")
       ELSE IF ~Exists(fs, hdf5_path) THEN Error("FileNotFoundError", "hdf5_path")
       ELSE IF preprocess_pipeline_path = None
       THEN Error("ValueError", "preprocess_pipeline_path")
       ELSE IF ~Exists(fs, preprocess_pipeline_path)
       THEN Error("FileNotFoundError", "preprocess_pipeline_path")
       ELSE NoError

(* Lines 122-138: the arguments and the six checks, in the order of the    *)
(* code; the exception of the first check that fails.                      *)
Validate(kwargs, fs) ==
    LET configuration_path == DictGet(kwargs, "configuration_path", None)
        hdf5_path == DictGet(kwargs, "hdf5_path", None)
        preprocess_pipeline_path == DictGet(kwargs, "preprocess_pipeline_path", None)
    IN IF configuration_path = None THEN Error("ValueError", "configuration_path")
       ELSE IF hdf5_path = None THEN Error("ValueError", "hdf5_path")
       ELSE IF preprocess_pipeline_path = None
       THEN Error("ValueError", "preprocess_pipeline_path")
       ELSE IF ~Exists(fs, configuration_path)
       THEN Error("FileNotFoundError", "configuration_path")
       ELSE IF ~Exists(fs, hdf5_path) THEN Error("FileNotFoundError", "hdf5_path")
       ELSE IF ~Exists(fs, preprocess_pipeline_path)
       THEN Error("FileNotFoundError", "preprocess_pipeline_path")
       ELSE NoError

(* Mutant: nb_fit and trained treated like the attributes of the loop.     *)
SetClassVarsKeepsFitState(self, configs) ==
    [a \in DOMAIN self |->
        IF a \in ReloadedAttributes \cup {"nb_fit", "trained"}
        THEN DictGet(configs, a, self[a])
        ELSE self[a]]

(* Mutant: every key of the configuration is set on the instance.          *)
SetClassVarsTakesEveryKey(self, configs) ==
    [a \in DOMAIN self |->
        IF a = "nb_fit" THEN DictGet(configs, "nb_fit", IntV(1))
        ELSE IF a = "trained" THEN DictGet(configs, "trained", BoolV(TRUE))
        ELSE DictGet(configs, a, self[a])]

(* Lines 147-153: "Set class vars" from the loaded configuration.          *)
SetClassVars(self, configs) ==
    [a \in DOMAIN self |->
        IF a = "nb_fit" THEN DictGet(configs, "nb_fit", IntV(1))
        ELSE IF a = "trained" THEN DictGet(configs, "trained", BoolV(TRUE))
        ELSE IF a \in ReloadedAttributes THEN DictGet(configs, a, self[a])
        ELSE self[a]]

(* Mutant: the loaded model is not assigned.                               *)
SetModelDropsResult(self, fs, hdf5_path) == self

(* Line 156: self.model = load_model_keras(hdf5_path, ...)                 *)
SetModel(self, fs, hdf5_path) == [self EXCEPT !["model"] = fs[hdf5_path].model]

(* Lines 159-160: shutil.copyfile(hdf5_path, new_hdf5_path)                *)
CopyFile(fs, src, dst) == (dst :> fs[src]) @@ fs

(* Lines 163-164: self.preprocess_pipeline = pickle.load(f)                *)
SetPipeline(self, fs, preprocess_pipeline_path) ==
    [self EXCEPT !["preprocess_pipeline"] = fs[preprocess_pipeline_path].object]

(* The steps of lines 140-164 after a successful validation, in order.     *)
(* A library call raises when the file is not of the kind it reads, and    *)
(* copyfile raises when source and destination are the same file; the      *)
(* call then ends with what the steps before it have done.                 *)
Steps == <<"json.load", "set class vars", "load_model_keras", "copyfile", "pickle.load">>

StepRaises(step, self, fs, kwargs) ==
    IF step = "json.load" THEN fs[kwargs["configuration_path"]].kind # "json"
    ELSE IF step = "load_model_keras" THEN fs[kwargs["hdf5_path"]].kind # "hdf5"
    ELSE IF step = "copyfile" THEN kwargs["hdf5_path"] = NewHdf5Path(self)
    ELSE IF step = "pickle.load" THEN fs[kwargs["preprocess_pipeline_path"]].kind # "pickle"
    ELSE FALSE

StepException(step) ==
    IF step = "json.load" THEN "JSONDecodeError"
    ELSE IF step = "load_model_keras" THEN "OSError"
    ELSE IF step = "copyfile" THEN "SameFileError"
    ELSE "UnpicklingError"

StepSelf(step, self, fs, kwargs) ==
    IF step = "set class vars"
    THEN SetClassVars(self, fs[kwargs["configuration_path"]].data)
    ELSE IF step = "load_model_keras" THEN SetModel(self, fs, kwargs["hdf5_path"])
    ELSE IF step = "pickle.load" THEN SetPipeline(self, fs, kwargs["preprocess_pipeline_path"])
    ELSE self

StepFiles(step, self, fs, kwargs) ==
    IF step = "copyfile" THEN CopyFile(fs, kwargs["hdf5_path"], NewHdf5Path(self))
    ELSE fs

(* The library call a step makes, with the path it is given. *)
StepEvent(step, self, kwargs) ==
    IF step = "json.load" THEN [op |-> step, path |-> kwargs["configuration_path"]]
    ELSE IF step = "set class vars" THEN [op |-> step, path |-> None]
    ELSE IF step = "load_model_keras" THEN [op |-> step, path |-> kwargs["hdf5_path"]]
    ELSE IF step = "copyfile" THEN [op |-> step, path |-> NewHdf5Path(self)]
    ELSE [op |-> step, path |-> kwargs["preprocess_pipeline_path"]]

(* The state of the call after its first n steps. *)
RECURSIVE Run(_, _, _, _)
Run(n, self, fs, kwargs) ==
    IF n = 0
    THEN [self |-> self, files |-> fs, events |-> <<>>, error |-> NoError]
    ELSE LET before == Run(n - 1, self, fs, kwargs)
             step == Steps[n]
         IN IF before.error # NoError THEN before
            ELSE IF StepRaises(step, before.self, before.files, kwargs)
            THEN [before EXCEPT !.error = Error(StepException(step), step),
                                !.events = Append(@, StepEvent(step, before.self, kwargs))]
            ELSE [self |-> StepSelf(step, before.self, before.files, kwargs),
                  files |-> StepFiles(step, before.self, before.files, kwargs),
                  events |-> Append(before.events, StepEvent(step, before.self, kwargs)),
                  error |-> NoError]

(* Mutant: nb_fit and trained are reset before the checks.                 *)
RejectedAfterReset(invalid, self, fs) ==
    [self |-> [self EXCEPT !["nb_fit"] = IntV(1), !["trained"] = BoolV(TRUE)],
     files |-> fs, events |-> <<>>, error |-> invalid]

(* A raise of lines 127-138: the call ends there, nothing was read or set. *)
Rejected(invalid, self, fs) ==
    [self |-> self, files |-> fs, events |-> <<>>, error |-> invalid]

(* reload_from_standalone, lines 121-164. *)
ReloadFromStandalone(kwargs) ==
    LET invalid == Validate(kwargs, files)
        done == IF invalid # NoError
                THEN Rejected(invalid, regressor, files)
                ELSE Run(Len(Steps), regressor, files, kwargs)
    IN /\ regressor' = done.self
       /\ files' = done.files
       /\ reload' = [op |-> "reload_from_standalone", kwargs |-> kwargs,
                     validation |-> invalid, error |-> done.error,
                     events |-> done.events]
       /\ UNCHANGED <<explainerVars, buildVars>>

----------------------------------------------------------------------------
(* Properties of reload_from_standalone, checked under SpecReload          *)

Called == reload.op = "reload_from_standalone"
Succeeded == Called /\ reload.error = NoError
Argument(call, name) == IF name \in DOMAIN call.kwargs THEN call.kwargs[name] ELSE None
ArgumentOrder == <<"configuration_path", "hdf5_path", "preprocess_pipeline_path">>

(* C2: a call with an argument missing or None raises the ValueError of    *)
(* the first such argument, whatever exists on disk; a call with all three *)
(* raises the FileNotFoundError of the first path that does not exist; no  *)
(* other call fails validation.                                            *)
C2_ValidationOrder ==
    Called =>
        LET absent == {i \in 1..3 : Argument(reload, ArgumentOrder[i]) = None}
            notFound == {i \in 1..3 : ~Exists(files, Argument(reload, ArgumentOrder[i]))}
            First(S) == CHOOSE i \in S : \A j \in S : i <= j
        IN IF absent # {}
           THEN reload.validation = [raised |-> "ValueError", at |-> ArgumentOrder[First(absent)]]
           ELSE IF notFound # {}
           THEN reload.validation =
                    [raised |-> "FileNotFoundError", at |-> ArgumentOrder[First(notFound)]]
           ELSE reload.validation = NoError

(* hdf5_path is not given and the configuration path does not exist.       *)
C2_Witness ==
    /\ Called
    /\ "hdf5_path" \notin DOMAIN reload.kwargs
    /\ Argument(reload, "configuration_path") = ConfPath
    /\ ~Exists(files, ConfPath)
    /\ reload.validation = [raised |-> "ValueError", at |-> "hdf5_path"]

(* C3: a successful reload leaves each of the eleven attributes at the     *)
(* value of the configuration file when the key is there and at the value  *)
(* held before when it is not; nb_fit and trained at the file's value or   *)
(* else at 1 and True.                                                     *)
C3_FileKeysOverride ==
    [][(reload'.op = "reload_from_standalone" /\ reload'.error = NoError) =>
         LET configs == files[reload'.kwargs["configuration_path"]].data
         IN /\ \A a \in ReloadedAttributes :
                  regressor'[a] = IF a \in DOMAIN configs THEN configs[a] ELSE regressor[a]
            /\ regressor'["nb_fit"] =
                  IF "nb_fit" \in DOMAIN configs THEN configs["nb_fit"] ELSE IntV(1)
            /\ regressor'["trained"] =
                  IF "trained" \in DOMAIN configs THEN configs["trained"] ELSE BoolV(TRUE)]_vars

(* The file has no nb_fit and has x_col: nb_fit is 1 (a fresh instance     *)
(* holds 0) and x_col is the file's.                                       *)
C3_Witness ==
    /\ Succeeded
    /\ "nb_fit" \notin DOMAIN files[ConfPath].data
    /\ "x_col" \in DOMAIN files[ConfPath].data
    /\ regressor["nb_fit"] = IntV(1)
    /\ regressor["x_col"] = ProfileValue("x_col", 2)
    /\ regressor["trained"] = BoolV(FALSE)

(* The files at the paths of the call are those an instance of profile p   *)
(* saved.                                                                  *)
SavedBy(p) ==
    LET saved == SavedFiles(Instance(p))
    IN /\ files[reload.kwargs["configuration_path"]] = saved.configuration
       /\ files[reload.kwargs["hdf5_path"]] = saved.hdf5
       /\ files[reload.kwargs["preprocess_pipeline_path"]] = saved.preprocess_pipeline

C9_FailedValidationChangesNothing ==
    [][(reload'.op = "reload_from_standalone" /\ reload'.validation # NoError) =>
         /\ regressor' = regressor
         /\ files' = files
         /\ reload'.events = <<>>
         /\ reload'.error = reload'.validation]_vars

(* A call refused for a missing pipeline file, on an instance that holds   *)
(* nb_fit = 0 and has a readable configuration and weights file.           *)
C9_Witness ==
    /\ Called
    /\ reload.validation = [raised |-> "FileNotFoundError", at |-> "preprocess_pipeline_path"]
    /\ Exists(files, ConfPath) /\ Exists(files, Hdf5Path)
    /\ regressor = Instance(0)

OwnBestPath == Path(ProfileValue("model_dir", 0), "best.hdf5")

(* C10: model_name and model_dir stay as constructed; the only file ever   *)
(* written is best.hdf5 of that model_dir, right after the model was       *)
(* loaded from hdf5_path and before the pipeline is read.                  *)
C10_NameAndDirKept ==
    /\ regressor["model_name"] = ProfileValue("model_name", 0)
    /\ regressor["model_dir"] = ProfileValue("model_dir", 0)
    /\ DOMAIN files \subseteq {ConfPath, Hdf5Path, PipelinePath, OwnBestPath}
    /\ Called =>
          \A i \in DOMAIN reload.events :
              reload.events[i].op = "copyfile" =>
                  /\ reload.events[i].path = OwnBestPath
                  /\ i > 1
                  /\ reload.events[i - 1] =
                        [op |-> "load_model_keras", path |-> reload.kwargs["hdf5_path"]]
                  /\ regressor["model"] = files[reload.kwargs["hdf5_path"]].model
                  /\ \A j \in DOMAIN reload.events :
                        reload.events[j].op = "pickle.load" => j > i

(* A successful reload from a configuration that holds another model_dir.  *)
C10_Witness ==
    /\ Succeeded
    /\ "model_dir" \in DOMAIN files[ConfPath].data
    /\ files[ConfPath].data["model_dir"] # regressor["model_dir"]
    /\ Exists(files, OwnBestPath)
    /\ files[OwnBestPath] = files[Hdf5Path]

----------------------------------------------------------------------------
(* Specifications                                                          *)

ExplainerIdle == explainer = NotConstructed /\ last = NoCall
BuildIdle == builders = <<>> /\ emitted = <<>>
ReloadIdle == regressor = NotConstructed /\ files = <<>> /\ reload = NoCall

InitExplainer ==
    /\ explainer = NotConstructed
    /\ last = NoCall
    /\ ReloadIdle
    /\ BuildIdle

NextExplainer ==
    \/ \E model \in ModelObjects, model_conf \in ModelConfs :
          LimeExplainerInit(model, model_conf)
    \/ \E content_list \in ContentLists : ClassifierFn(content_list)
    \/ \E content \in Contents, class_or_label_index \in IndexArgs,
          max_features \in MaxFeaturesArgs, lime_ok \in BOOLEAN :
          \/ ExplainInstance(content, class_or_label_index, max_features, lime_ok)
          \/ ExplainInstanceAsHtml(content, class_or_label_index, max_features, lime_ok)
          \/ ExplainInstanceAsList(content, class_or_label_index, max_features, lime_ok)

SpecExplainer == InitExplainer /\ [][NextExplainer]_vars

InitBuild ==
    /\ builders \in [1..2 -> BuilderInstances]
    /\ emitted = [i \in 1..2 |-> NotEmitted]
    /\ ExplainerIdle
    /\ ReloadIdle

NextBuild == \E i \in 1..2 : GetModel(i)

SpecBuild == InitBuild /\ [][NextBuild]_vars

(* The instance is freshly constructed and its model_dir is empty; the     *)
(* standalone directory holds some of the three files an original instance *)
(* of profile p saved, the configuration with the keys of K.               *)
InitReload ==
    /\ regressor = Instance(0)
    /\ \E p \in 1..NumProfiles, K \in KeySets, present \in SUBSET KwargNames :
          LET saved == SavedFiles(Instance(p))
              standalone ==
                  [path \in {ConfPath, Hdf5Path, PipelinePath} |->
                      IF path = ConfPath
                      THEN JsonFile(Restrict(saved.configuration.data, K))
                      ELSE IF path = Hdf5Path THEN saved.hdf5
                      ELSE saved.preprocess_pipeline]
              kept == {ConfPath : x \in present \cap {"configuration_path"}}
                      \cup {Hdf5Path : x \in present \cap {"hdf5_path"}}
                      \cup {PipelinePath : x \in present \cap {"preprocess_pipeline_path"}}
          IN files = Restrict(standalone, kept)
    /\ reload = NoCall
    /\ ExplainerIdle
    /\ BuildIdle

NextReload == \E kwargs \in Kwargs : ReloadFromStandalone(kwargs)

SpecReload == InitReload /\ [][NextReload]_vars
====
